---- MODULE Spec2Model ----
(***************************************************************************)
(* The pixel-permutation experiment of DSA5204_permutation.ipynb:          *)
(* get_shuffle_indices, shuffle_image, shuffle_and_eval, magic, evaluate.  *)
(*                                                                         *)
(* numpy arrays are records [shape, data]: shape is the tuple of           *)
(* dimensions, data the C-order (row-major) flat contents, indexed from 0  *)
(* as in the source.  Index arrays (shuf_idx) are functions on 0..L-1.     *)
(* Weights and pixels are integers; the Lambda layer's x / 255 is kept     *)
(* exact by carrying every pre-activation multiplied by 255.               *)
(***************************************************************************)
EXTENDS Integers, Sequences, FiniteSets, TLC

(***************************************************************************)
(* Bounds.  The notebook works on 28 x 28 images (784 pixels), 128 hidden  *)
(* units, 10 classes, 60000 / 10000 images; the model keeps the code and   *)
(* scales these sizes down.                                                *)
(***************************************************************************)
\* side of the square image: the 28 of reshape(-1, 28, 28)
ImgSide == 2
\* the positions the random source can draw (all of them when = NumPixels)
DrawRange == 4
\* random draws in one run (caps the np.random stream position)
MaxDraws == 2
\* magic(model) calls in one run
MaxMagic == 2
\* units of the first Dense layer (128 in the notebook)
Hidden == 2
\* units of the softmax layer (10 in the notebook)
Classes == 2
\* images in x_train and in x_test
NTrain == 2
NTest == 2
\* largest batch handed to shuffle_image by the function harness
MaxBatch == 2
\* model.fit calls in one run of the regularization notebook
MaxFits == 3

\* 784 in the source: np.arange(784), np.random.choice(784, ...)
NumPixels == ImgSide * ImgSide
\* the divisor of the Lambda layer
Scale == 255

(***************************************************************************)
(* numpy arrays                                                            *)
(***************************************************************************)
RECURSIVE Prod(_)
Prod(s) == IF s = <<>> THEN 1 ELSE Head(s) * Prod(Tail(s))

\* number of elements of an array
ArrSize(a) == Prod(a.shape)

\* a.ndim
Ndim(a) == Len(a.shape)

\* a.reshape(newshape) of a C-contiguous array: same flat contents
Reshape(a, newshape) == [shape |-> newshape, data |-> a.data]

\* a[None, :, :]
AddBatchAxis(a) == [shape |-> <<1>> \o a.shape, data |-> a.data]

\* a.squeeze(): every axis of length 1 is dropped
Squeeze(a) == [shape |-> SelectSeq(a.shape, LAMBDA d : d # 1), data |-> a.data]

\* np.arange(n)
Arange(n) == [i \in 0..(n - 1) |-> i]

\* len(idx) of a 1-d index array
IdxLen(idx) == Cardinality(DOMAIN idx)

\* numpy index normalisation: a negative index counts from the end
NormIdx(v, n) == IF v < 0 THEN v + n ELSE v

\* is every entry of idx a legal index into an axis of length n
IdxInRange(idx, n) == \A i \in DOMAIN idx : idx[i] >= -n /\ idx[i] < n

\* faulty variant of TakeCols: scatters, out[k, idx[i]] = a[k, i]
TakeColsBad(a, idx) ==
    LET rows == a.shape[1]
        cols == a.shape[2]
        L    == IdxLen(idx)
    IN [shape |-> <<rows, L>>,
        data  |-> [f \in 0..(rows * L - 1) |->
                     LET k == f \div L
                         i == f % L
                         q == CHOOSE j \in DOMAIN idx : NormIdx(idx[j], cols) = i
                     IN a.data[k * cols + q]]]

\* faulty variant of TakeCols: indexes the first image for every row (image[0, idx])
TakeColsFirstRow(a, idx) ==
    LET rows == a.shape[1]
        cols == a.shape[2]
        L    == IdxLen(idx)
    IN [shape |-> <<rows, L>>,
        data  |-> [f \in 0..(rows * L - 1) |-> a.data[NormIdx(idx[f % L], cols)]]]

\* a[:, idx] for a 2-d array a (fancy indexing on the second axis: a new array
\* with out[k, i] = a[k, idx[i]])
TakeCols(a, idx) ==
    LET rows == a.shape[1]
        cols == a.shape[2]
        L    == IdxLen(idx)
    IN [shape |-> <<rows, L>>,
        data  |-> [f \in 0..(rows * L - 1) |->
                     LET k == f \div L
                         i == f % L
                     IN a.data[k * cols + NormIdx(idx[i], cols)]]]

\* faulty variant of TakeRows: scatters, out[idx[i], :] = a[i, :]
TakeRowsBad(a, idx) ==
    LET rows == a.shape[1]
        cols == a.shape[2]
        L    == IdxLen(idx)
    IN [shape |-> <<L, cols>>,
        data  |-> [f \in 0..(L * cols - 1) |->
                     LET i == f \div cols
                         h == f % cols
                         q == CHOOSE j \in DOMAIN idx : NormIdx(idx[j], rows) = i
                     IN a.data[q * cols + h]]]

\* a[idx, :] for a 2-d array a (fancy indexing on the first axis: a new array
\* with out[i, :] = a[idx[i], :])
TakeRows(a, idx) ==
    LET rows == a.shape[1]
        cols == a.shape[2]
        L    == IdxLen(idx)
    IN [shape |-> <<L, cols>>,
        data  |-> [f \in 0..(L * cols - 1) |->
                     LET i == f \div cols
                         h == f % cols
                     IN a.data[NormIdx(idx[i], rows) * cols + h]]]

\* results of a call: a value, or the exception it raised
Ok(v) == [ok |-> TRUE, val |-> v, err |-> "none"]
Raise(e) == [ok |-> FALSE, val |-> [shape |-> <<>>, data |-> <<>>], err |-> e]

(***************************************************************************)
(* get_shuffle_indices                                                     *)
(***************************************************************************)
\* faulty variant of SwapEntries: the second store is lost
SwapEntriesBad(idx, i, j) == [idx EXCEPT ![i] = idx[j]]

\* shuf_idx[i], shuf_idx[j] = shuf_idx[j], shuf_idx[i]
SwapEntries(idx, i, j) == [idx EXCEPT ![i] = idx[j], ![j] = idx[i]]

\* faulty variant of DrawPairs: drawn with replacement, the two may coincide
DrawPairsWithReplacement == (0..(DrawRange - 1)) \X (0..(DrawRange - 1))

\* np.random.choice(784, size=(2, ), replace=False): two distinct positions
DrawPairs == {d \in (0..(DrawRange - 1)) \X (0..(DrawRange - 1)) : d[1] # d[2]}

(***************************************************************************)
(* shuffle_image                                                           *)
(***************************************************************************)
\* faulty variant of ShuffleImage: without the final squeeze()
ShuffleImageNoSqueeze(image, idx) ==
    LET a1 == IF Ndim(image) = 2 THEN AddBatchAxis(image) ELSE image
        n  == a1.shape[1]
        a2 == Reshape(a1, <<n, ArrSize(a1) \div n>>)
    IN IF ~IdxInRange(idx, a2.shape[2]) THEN Raise("IndexError")
       ELSE LET a3 == TakeCols(a2, idx)
            IN IF ArrSize(a3) % NumPixels # 0 THEN Raise("ValueError")
               ELSE Ok(Reshape(a3, <<ArrSize(a3) \div NumPixels, ImgSide, ImgSide>>))

\* faulty variant of ShuffleImage: scatters the pixels instead of gathering them
ShuffleImageScatter(image, idx) ==
    LET a1 == IF Ndim(image) = 2 THEN AddBatchAxis(image) ELSE image
        n  == a1.shape[1]
        a2 == Reshape(a1, <<n, ArrSize(a1) \div n>>)
    IN IF ~IdxInRange(idx, a2.shape[2]) THEN Raise("IndexError")
       ELSE LET a3 == TakeColsBad(a2, idx)
            IN IF ArrSize(a3) % NumPixels # 0 THEN Raise("ValueError")
               ELSE Ok(Squeeze(Reshape(a3, <<ArrSize(a3) \div NumPixels, ImgSide, ImgSide>>)))

\* the value shuffle_image(image, shuf_idx) returns
ShuffleImage(image, idx) ==
    LET a1 == IF Ndim(image) = 2 THEN AddBatchAxis(image) ELSE image
        n  == a1.shape[1]
        a2 == Reshape(a1, <<n, ArrSize(a1) \div n>>)
    IN IF ~IdxInRange(idx, a2.shape[2]) THEN Raise("IndexError")
       ELSE LET a3 == TakeCols(a2, idx)
            IN IF ArrSize(a3) % NumPixels # 0 THEN Raise("ValueError")
               ELSE Ok(Squeeze(Reshape(a3, <<ArrSize(a3) \div NumPixels, ImgSide, ImgSide>>)))

\* faulty variant of ShuffleImageArgAfter: the pixels are permuted in place
ShuffleImageArgAfterInPlace(image, idx) ==
    IF ShuffleImage(image, idx).ok
    THEN [shape |-> image.shape, data |-> ShuffleImage(image, idx).val.data]
    ELSE image

\* the caller's array after shuffle_image(image, shuf_idx): the function only
\* rebinds its local name image (reshape gives a view, image[:, shuf_idx] a
\* copy) and never stores through it
ShuffleImageArgAfter(image, idx) == image

(***************************************************************************)
(* The model: Lambda(x / 255), Flatten, Dense(relu), Dense(softmax).       *)
(* weights is the list model.get_weights() returns: <<W, b, w, c>>.        *)
(***************************************************************************)
RECURSIVE SumUpTo(_, _)
\* f[0] + ... + f[n-1]
SumUpTo(f, n) == IF n <= 0 THEN 0 ELSE f[n - 1] + SumUpTo(f, n - 1)

\* a[i, j] of a 2-d array
At2(a, i, j) == a.data[i * a.shape[2] + j]

\* image k of a batch [N, H, W], flattened (the Flatten layer)
FlatImage(batch, k) == [i \in 0..(NumPixels - 1) |-> batch.data[k * NumPixels + i]]

\* a single [H, W] image, flattened
FlatSingle(image) == [i \in 0..(NumPixels - 1) |-> image.data[i]]

Relu(z) == IF z > 0 THEN z ELSE 0

\* 255 times the pre-activations of the first Dense layer on the flat image x:
\* 255 * (sum_i W[i, h] * (x[i] / 255) + b[h])
PreAct(ws, x) ==
    LET W == ws[1]
        b == ws[2]
    IN [h \in 0..(W.shape[2] - 1) |->
          SumUpTo([i \in 0..(W.shape[1] - 1) |-> At2(W, i, h) * x[i]], W.shape[1])
          + Scale * b.data[h]]

\* 255 times the inputs of the softmax
Logits(ws, x) ==
    LET w   == ws[3]
        c   == ws[4]
        pre == PreAct(ws, x)
    IN [o \in 0..(w.shape[2] - 1) |->
          SumUpTo([h \in 0..(w.shape[1] - 1) |-> At2(w, h, o) * Relu(pre[h])], w.shape[1])
          + Scale * c.data[o]]

\* the predicted class: the first index of the largest softmax output
Predict(ws, x) ==
    LET lg == Logits(ws, x)
    IN CHOOSE o \in DOMAIN lg :
          /\ \A q \in DOMAIN lg : lg[q] <= lg[o]
          /\ \A q \in DOMAIN lg : q < o => lg[q] < lg[o]

\* model.evaluate(x, y)[1], as the number of images classified correctly
Correct(ws, batch, labels) ==
    Cardinality({k \in 0..(batch.shape[1] - 1) : Predict(ws, FlatImage(batch, k)) = labels[k]})

\* evaluate(model, train_data, test_data): the two accuracies it prints
Evaluate(ws, train_data, test_data) ==
    [train |-> Correct(ws, train_data[1], train_data[2]),
     test  |-> Correct(ws, test_data[1], test_data[2])]

\* faulty variant of WeightsAfterEvaluate: the model is fitted, its first bias moves
WeightsAfterEvaluateFit(ws) ==
    [ws EXCEPT ![2] = [@ EXCEPT !.data = [h \in DOMAIN @ |-> @[h] + 1]]]

\* the arrays the model holds after evaluate(model, ...): model.evaluate only
\* reads them
WeightsAfterEvaluate(ws) == ws

(***************************************************************************)
(* magic                                                                   *)
(***************************************************************************)
\* faulty variant of SetWeights: installs whatever it is given
SetWeightsUnchecked(old, new) == [ok |-> TRUE, weights |-> new, err |-> "none"]

\* faulty variant of SetWeights: installs the arrays and only then refuses them
SetWeightsInstallThenRaise(old, new) ==
    IF Len(new) # Len(old) \/ \E q \in 1..Len(old) : new[q].shape # old[q].shape
    THEN [ok |-> FALSE, weights |-> new, err |-> "ValueError"]
    ELSE [ok |-> TRUE, weights |-> new, err |-> "none"]

\* model.set_weights(new) on a model holding old: keras refuses a list of
\* another length or an array of another shape, and otherwise installs it
SetWeights(old, new) ==
    IF Len(new) # Len(old) \/ \E q \in 1..Len(old) : new[q].shape # old[q].shape
    THEN [ok |-> FALSE, weights |-> old, err |-> "ValueError"]
    ELSE [ok |-> TRUE, weights |-> new, err |-> "none"]

\* faulty variant of Magic: the kernel rows are scattered (W_shuf[shuf_idx, :] = W)
MagicInverse(ws, idx, isBound) ==
    IF Len(ws) # 4 THEN [ok |-> FALSE, weights |-> ws, err |-> "ValueError"]
    ELSE IF ~isBound THEN [ok |-> FALSE, weights |-> ws, err |-> "NameError"]
    ELSE IF ~IdxInRange(idx, ws[1].shape[1])
         THEN [ok |-> FALSE, weights |-> ws, err |-> "IndexError"]
    ELSE SetWeights(ws, <<TakeRowsBad(ws[1], idx), ws[2], ws[3], ws[4]>>)

\* faulty variant of Magic: the first layer's bias is reordered too
MagicAlsoBias(ws, idx, isBound) ==
    IF Len(ws) # 4 THEN [ok |-> FALSE, weights |-> ws, err |-> "ValueError"]
    ELSE IF ~isBound THEN [ok |-> FALSE, weights |-> ws, err |-> "NameError"]
    ELSE IF ~IdxInRange(idx, ws[1].shape[1])
         THEN [ok |-> FALSE, weights |-> ws, err |-> "IndexError"]
    ELSE SetWeights(ws, <<TakeRows(ws[1], idx),
                          [ws[2] EXCEPT !.data = [h \in DOMAIN ws[2].data |->
                                                    ws[2].data[(h + 1) % ws[2].shape[1]]]],
                          ws[3], ws[4]>>)

\* faulty variant of Magic: takes the first array and keeps the rest, however
\* many there are (W, *rest = model.get_weights())
MagicStarUnpack(ws, idx, isBound) ==
    IF ~isBound THEN [ok |-> FALSE, weights |-> ws, err |-> "NameError"]
    ELSE IF Ndim(ws[1]) # 2 \/ ~IdxInRange(idx, ws[1].shape[1])
         THEN [ok |-> FALSE, weights |-> ws, err |-> "IndexError"]
    ELSE SetWeights(ws, <<TakeRows(ws[1], idx)>> \o Tail(ws))

\* magic(model) on a model holding the weights ws, with the global shuf_idx
\* (bound or not): the weights the model holds afterwards, or the exception
Magic(ws, idx, isBound) ==
    IF Len(ws) # 4 THEN [ok |-> FALSE, weights |-> ws, err |-> "ValueError"]
    ELSE IF ~isBound THEN [ok |-> FALSE, weights |-> ws, err |-> "NameError"]
    ELSE IF ~IdxInRange(idx, ws[1].shape[1])
         THEN [ok |-> FALSE, weights |-> ws, err |-> "IndexError"]
    ELSE SetWeights(ws, <<TakeRows(ws[1], idx), ws[2], ws[3], ws[4]>>)

(***************************************************************************)
(* The data the notebook loads and the weights training leaves: any values *)
(* are possible; the model draws them from a small family.                 *)
(***************************************************************************)
Seeds == {1, 2}

\* a batch [n, 28, 28] of pixels in 0..255 (mnist.load_data)
MakeBatch(seed, n) ==
    [shape |-> <<n, ImgSide, ImgSide>>,
     data  |-> [f \in 0..(n * NumPixels - 1) |->
                  (31 * seed + 57 * (f \div NumPixels) + 101 * (f % NumPixels)) % 256]]

\* class labels (to_categorical keeps the class as the position of the 1)
MakeLabels(seed, n) == [k \in 0..(n - 1) |-> (seed + k) % Classes]

\* the four arrays of the trained two-layer model
TrainedWeights(seed) ==
    << [shape |-> <<NumPixels, Hidden>>,
        data  |-> [f \in 0..(NumPixels * Hidden - 1) |->
                     ((seed + 3 * (f \div Hidden) + 5 * (f % Hidden)) % 7) - 3]],
       [shape |-> <<Hidden>>,
        data  |-> [h \in 0..(Hidden - 1) |-> ((seed + h) % 3) - 1]],
       [shape |-> <<Hidden, Classes>>,
        data  |-> [f \in 0..(Hidden * Classes - 1) |-> ((seed + 2 * f) % 5) - 2]],
       [shape |-> <<Classes>>,
        data  |-> [o \in 0..(Classes - 1) |-> ((seed + 2 * o) % 3) - 1]] >>

EmptyArray == [shape |-> <<>>, data |-> <<>>]

(***************************************************************************)
(* State                                                                   *)
(***************************************************************************)
VARIABLES
    x_train, x_test, y_train, y_test,  \* the globals of the data cell
    weights,                           \* the arrays model holds (model.get_weights())
    bound,                             \* has the cell binding shuf_idx, x_train_shuf, x_test_shuf run
    shuf_idx, x_train_shuf, x_test_shuf,
    pc,                                \* "cell": between cells; "gsi": inside get_shuffle_indices
    caller,                            \* who called get_shuffle_indices
    n_arg, loc_idx, loc_left,          \* its argument n, its local shuf_idx, iterations left
    rngDraws,                          \* np.random.choice calls so far (position in the stream)
    callDraws,                         \* those made by the current / last get_shuffle_indices call
    magicCount,                        \* magic(model) calls that returned
    magicSince,                        \* those since shuf_idx was last bound
    weights_pre,                       \* the arrays the model held before the last magic
    weights_orig,                      \* the arrays the model held when training ended
    magicPerm,                         \* p1[p2[...pk[i]]] over the shuf_idx p1..pk of the magic calls that returned
    evalOut,                           \* what the last evaluate printed
    lastErr,                           \* the exception the last cell raised, or "none"
    h_image, h_idx, h_stage,           \* function harness: the caller's image, index array, progress
    h_out, h_again, h_back,            \* function harness: results of shuffle_image calls
    rngTape,                           \* the draws the stream of np.random.seed(123) has given so far, in order
    g_last,                            \* the last direct call get_shuffle_indices(*args): arguments, stream position, outcome
    files,                             \* regularization notebook: per save directory, what model.h5 and history.json hold (0: no such file)
    reg_model,                         \* regularization notebook: the weights its model holds (0: as built, k: as left by fit number k)
    fits,                              \* regularization notebook: model.fit calls so far
    t_last                             \* the last train_and_save call: arguments, files found, what it did

vars == <<x_train, x_test, y_train, y_test, weights, bound, shuf_idx, x_train_shuf,
          x_test_shuf, pc, caller, n_arg, loc_idx, loc_left, rngDraws, callDraws,
          magicCount, magicSince, weights_pre, weights_orig, magicPerm, evalOut, lastErr,
          h_image, h_idx, h_stage, h_out, h_again, h_back, rngTape, g_last,
          files, reg_model, fits, t_last>>

dataVars == <<y_train, y_test>>
shufVars == <<bound, shuf_idx, x_train_shuf, x_test_shuf>>
gsiVars == <<pc, caller, n_arg, loc_idx, loc_left, rngDraws, callDraws>>
magicVars == <<weights, magicCount, magicSince, weights_pre, weights_orig, magicPerm>>
trainVars == <<files, reg_model, fits, t_last>>
genVars == <<rngTape, g_last, trainVars>>
harnessVars == <<h_image, h_idx, h_stage, h_out, h_again, h_back, genVars>>

\* the state once the cells up to the first evaluate have run: data loaded,
\* model built and trained, and evaluated on x_train and x_test
InitNotebook(seed) ==
    /\ x_train = MakeBatch(seed, NTrain)
    /\ x_test = MakeBatch(seed + 2, NTest)
    /\ y_train = MakeLabels(seed, NTrain)
    /\ y_test = MakeLabels(seed + 1, NTest)
    /\ weights = TrainedWeights(seed)
    /\ bound = FALSE
    /\ shuf_idx = <<>>
    /\ x_train_shuf = EmptyArray
    /\ x_test_shuf = EmptyArray
    /\ pc = "cell"
    /\ caller = "none"
    /\ n_arg = 0
    /\ loc_idx = <<>>
    /\ loc_left = 0
    /\ rngDraws = 0
    /\ callDraws = 0
    /\ magicCount = 0
    /\ magicSince = 0
    /\ weights_pre = TrainedWeights(seed)
    /\ weights_orig = TrainedWeights(seed)
    /\ magicPerm = Arange(NumPixels)
    /\ evalOut = Evaluate(TrainedWeights(seed),
                          <<MakeBatch(seed, NTrain), MakeLabels(seed, NTrain)>>,
                          <<MakeBatch(seed + 2, NTest), MakeLabels(seed + 1, NTest)>>)
    /\ lastErr = "none"

\* the directories train_and_save is given in the regularization notebook
SavePaths == {"baseline", "l2_regularized"}

\* no save directory holds a file, the model is as built, nothing has been called
TrainIdle ==
    /\ files = [p \in SavePaths |-> [model_h5 |-> 0, history_json |-> 0]]
    /\ reg_model = 0
    /\ fits = 0
    /\ t_last = [path |-> "none", force |-> "none", found |-> [model_h5 |-> 0, history_json |-> 0],
                 did |-> "none"]

\* no direct call of get_shuffle_indices has been made, no draw has been taken
GenIdle ==
    /\ TrainIdle
    /\ rngTape = <<>>
    /\ g_last = [args |-> <<>>, pos |-> 0, ok |-> FALSE, val |-> <<>>, err |-> "none"]

HarnessIdle ==
    /\ h_image = EmptyArray
    /\ h_idx = <<>>
    /\ h_stage = "off"
    /\ h_out = Raise("none")
    /\ h_again = Raise("none")
    /\ h_back = Raise("none")

Init == \E seed \in Seeds : InitNotebook(seed) /\ HarnessIdle /\ GenIdle

(***************************************************************************)
(* get_shuffle_indices(n), one loop iteration per step                     *)
(***************************************************************************)
\* the swap counts a call may be given with the draws the run has left
SwapCounts == 0..(MaxDraws - rngDraws)

\* shuf_idx = np.arange(784), entering the loop
GetShuffleIndicesEnter(who, n) ==
    /\ pc' = "gsi"
    /\ caller' = who
    /\ n_arg' = n
    /\ loc_idx' = Arange(NumPixels)
    /\ loc_left' = n
    /\ callDraws' = 0
    /\ UNCHANGED rngDraws

\* faulty variant of LoopContinues: range(n + 1)
LoopContinuesOffByOne(left) == left >= 0

\* for _ in range(n): is there another iteration, with left of them to go
LoopContinues(left) == left > 0

\* one iteration of for _ in range(n)
SwapIteration ==
    /\ pc = "gsi"
    /\ LoopContinues(loc_left)
    /\ \E d \in DrawPairs :
          loc_idx' = SwapEntries(loc_idx, d[1], d[2])
    /\ loc_left' = loc_left - 1
    /\ rngDraws' = rngDraws + 1
    /\ callDraws' = callDraws + 1
    /\ UNCHANGED <<pc, caller, n_arg>>
    /\ UNCHANGED <<x_train, x_test, dataVars, shufVars, magicVars, evalOut, lastErr, harnessVars>>

(***************************************************************************)
(* The cells of the notebook                                               *)
(***************************************************************************)
\* shuffle_and_eval(n_swap), up to its call of get_shuffle_indices
ShuffleAndEvalCall(n) ==
    /\ pc = "cell"
    /\ GetShuffleIndicesEnter("shuffle_and_eval", n)
    /\ UNCHANGED <<x_train, x_test, dataVars, shufVars, magicVars, evalOut, lastErr, harnessVars>>

\* get_shuffle_indices returns; the rest of shuffle_and_eval; and the cell's
\* assignment shuf_idx, x_train_shuf, x_test_shuf = shuffle_and_eval(...)
ShuffleAndEvalReturn ==
    /\ pc = "gsi"
    /\ caller = "shuffle_and_eval"
    /\ ~LoopContinues(loc_left)
    /\ LET rtrain  == ShuffleImage(x_train, loc_idx)
           x_train1 == ShuffleImageArgAfter(x_train, loc_idx)
           rtest   == ShuffleImage(x_test, loc_idx)
           x_test1 == ShuffleImageArgAfter(x_test, loc_idx)
       IN IF ~rtrain.ok
          THEN /\ lastErr' = rtrain.err
               /\ x_train' = x_train1
               /\ UNCHANGED <<x_test, shufVars, evalOut, magicSince, weights>>
          ELSE IF ~rtest.ok
          THEN /\ lastErr' = rtest.err
               /\ x_train' = x_train1
               /\ x_test' = x_test1
               /\ UNCHANGED <<shufVars, evalOut, magicSince, weights>>
          ELSE /\ lastErr' = "none"
               /\ x_train' = x_train1
               /\ x_test' = x_test1
               /\ evalOut' = Evaluate(weights, <<rtrain.val, y_train>>, <<rtest.val, y_test>>)
               /\ bound' = TRUE
               /\ shuf_idx' = loc_idx
               /\ x_train_shuf' = rtrain.val
               /\ x_test_shuf' = rtest.val
               /\ magicSince' = 0
               /\ weights' = WeightsAfterEvaluate(weights)
    /\ pc' = "cell"
    /\ UNCHANGED <<caller, n_arg, loc_idx, loc_left, rngDraws, callDraws>>
    /\ UNCHANGED <<dataVars, magicCount, weights_pre, weights_orig, magicPerm, harnessVars>>

\* the index array i -> q[p[i]]: q read through p
ComposeIdx(q, p) == [i \in DOMAIN p |-> q[NormIdx(p[i], IdxLen(q))]]

\* the cell magic(model)
MagicCell ==
    /\ pc = "cell"
    /\ magicCount < MaxMagic
    /\ LET r == Magic(weights, shuf_idx, bound)
       IN /\ weights' = r.weights
          /\ lastErr' = r.err
          /\ IF r.ok
             THEN /\ weights_pre' = weights
                  /\ magicPerm' = ComposeIdx(magicPerm, shuf_idx)
                  /\ magicCount' = magicCount + 1
                  /\ magicSince' = magicSince + 1
             ELSE UNCHANGED <<weights_pre, magicCount, magicSince, magicPerm>>
          /\ UNCHANGED weights_orig
    /\ UNCHANGED <<x_train, x_test, dataVars, shufVars, gsiVars, evalOut, harnessVars>>

\* the cell evaluate(model, (x_train_shuf, y_train), (x_test_shuf, y_test))
EvaluateShufCell ==
    /\ pc = "cell"
    /\ IF bound
       THEN /\ evalOut' = Evaluate(weights, <<x_train_shuf, y_train>>, <<x_test_shuf, y_test>>)
            /\ lastErr' = "none"
            /\ weights' = WeightsAfterEvaluate(weights)
       ELSE /\ lastErr' = "NameError"
            /\ UNCHANGED <<evalOut, weights>>
    /\ UNCHANGED <<x_train, x_test, dataVars, shufVars, gsiVars, harnessVars>>
    /\ UNCHANGED <<magicCount, magicSince, weights_pre, weights_orig, magicPerm>>

Next ==
    \/ \E n \in SwapCounts : ShuffleAndEvalCall(n)
    \/ SwapIteration
    \/ ShuffleAndEvalReturn
    \/ MagicCell
    \/ EvaluateShufCell

Spec == Init /\ [][Next]_vars

(***************************************************************************)
(* The functions on their own: a caller holding an image array (a batch of *)
(* one or more images, or a single image) asks get_shuffle_indices for an  *)
(* index array and applies shuffle_image with it.                          *)
(***************************************************************************)
\* one [28, 28] image, without a batch axis
SingleImage(seed) ==
    [shape |-> <<ImgSide, ImgSide>>,
     data  |-> [f \in 0..(NumPixels - 1) |-> (31 * seed + 101 * f) % 256]]

HarnessImages(seed) == {MakeBatch(seed, n) : n \in 1..MaxBatch} \cup {SingleImage(seed)}

\* the index array that undoes idx (np.argsort(idx))
InversePerm(idx) == [i \in DOMAIN idx |-> CHOOSE j \in DOMAIN idx : idx[j] = i]

InitFn ==
    \E seed \in Seeds :
       /\ InitNotebook(seed)
       /\ h_image \in HarnessImages(seed)
       /\ h_idx = <<>>
       /\ h_stage = "input"
       /\ h_out = Raise("none")
       /\ h_again = Raise("none")
       /\ h_back = Raise("none")
       /\ GenIdle

notebookVars == <<x_train, x_test, dataVars, shufVars, magicVars, evalOut, lastErr>>

\* shuf_idx = get_shuffle_indices(n): the call
FnGetShuffleIndices(n) ==
    /\ pc = "cell"
    /\ h_stage = "input"
    /\ GetShuffleIndicesEnter("harness", n)
    /\ UNCHANGED <<notebookVars, genVars, harnessVars>>

\* ... and its return shuf_idx
FnGetShuffleIndicesReturn ==
    /\ pc = "gsi"
    /\ caller = "harness"
    /\ ~LoopContinues(loc_left)
    /\ pc' = "cell"
    /\ h_idx' = loc_idx
    /\ h_stage' = "idx"
    /\ UNCHANGED <<caller, n_arg, loc_idx, loc_left, rngDraws, callDraws>>
    /\ UNCHANGED <<notebookVars, genVars, h_image, h_out, h_again, h_back>>

\* out = shuffle_image(image, shuf_idx)
FnShuffle ==
    /\ pc = "cell"
    /\ h_stage = "idx"
    /\ h_out' = ShuffleImage(h_image, h_idx)
    /\ h_image' = ShuffleImageArgAfter(h_image, h_idx)
    /\ h_stage' = "shuffled"
    /\ UNCHANGED <<notebookVars, genVars, gsiVars, h_idx, h_again, h_back>>

\* again = shuffle_image(image, shuf_idx), a second call on the same arguments
FnShuffleAgain ==
    /\ pc = "cell"
    /\ h_stage = "shuffled"
    /\ h_again' = ShuffleImage(h_image, h_idx)
    /\ h_image' = ShuffleImageArgAfter(h_image, h_idx)
    /\ h_stage' = "again"
    /\ UNCHANGED <<notebookVars, genVars, gsiVars, h_idx, h_out, h_back>>

\* back = shuffle_image(out, inverse of shuf_idx)
FnUnshuffle ==
    /\ pc = "cell"
    /\ h_stage \in {"shuffled", "again"}
    /\ h_out.ok
    /\ h_back' = ShuffleImage(h_out.val, InversePerm(h_idx))
    /\ h_stage' = "back"
    /\ UNCHANGED <<notebookVars, genVars, gsiVars, h_image, h_idx, h_out, h_again>>

NextFn ==
    \/ \E n \in SwapCounts : FnGetShuffleIndices(n)
    \/ SwapIteration
    \/ FnGetShuffleIndicesReturn
    \/ FnShuffle
    \/ FnShuffleAgain
    \/ FnUnshuffle

SpecFn == InitFn /\ [][NextFn]_vars

(***************************************************************************)
(* Properties                                                              *)
(***************************************************************************)
\* idx holds every value 0..783 exactly once
IsPermutation(idx) ==
    /\ DOMAIN idx = 0..(NumPixels - 1)
    /\ \A v \in 0..(NumPixels - 1) : Cardinality({i \in DOMAIN idx : idx[i] = v}) = 1

\* the images of a batch [N, H, W], or the single image [H, W]
ImageCount(a) == IF Ndim(a) = 2 THEN 1 ELSE a.shape[1]

\* C1: for every swap count, on entry to the loop of get_shuffle_indices, after
\* every one of its iterations and in the value it returns, the index array
\* holds every value 0..size-1 exactly once.
C1_Bijection ==
    /\ pc = "gsi" => IsPermutation(loc_idx)
    /\ (pc = "cell" /\ caller = "shuffle_and_eval") => IsPermutation(loc_idx)
    /\ bound => IsPermutation(shuf_idx)

\* a second swap iteration has run and the array is not the identity
C1_Witness == pc = "gsi" /\ callDraws >= 2 /\ loc_idx # Arange(NumPixels)

\* C2: with the kernel realigned by magic under the permutation p = shuf_idx,
\* the first-layer pre-activation of every hidden unit on shuffle_image(x, p)
\* equals that of the kernel before magic on x, for every image x.
C2_Invariance ==
    magicSince >= 1 =>
       \A b \in {x_train, x_test} : \A k \in 0..(b.shape[1] - 1) :
          LET x == [shape |-> <<ImgSide, ImgSide>>, data |-> FlatImage(b, k)]
              r == ShuffleImage(x, shuf_idx)
          IN /\ r.ok
             /\ \A h \in 0..(Hidden - 1) :
                   PreAct(weights, FlatSingle(r.val))[h] = PreAct(weights_pre, FlatSingle(x))[h]

\* magic has run under a permutation that is not its own inverse
C2_Witness ==
    /\ magicSince >= 1
    /\ \E i \in DOMAIN shuf_idx : shuf_idx[shuf_idx[i]] # i
    /\ weights # weights_pre

\* C3: shuffle_image gathers: for every image k of the batch and every
\* position i, flattened output[k][i] = flattened input[k][shuf_idx[i]], and
\* the output is in image form (its last two axes are H and W).
C3_Gather ==
    h_stage \in {"shuffled", "again", "back"} =>
       /\ h_out.ok
       /\ ArrSize(h_out.val) = ImageCount(h_image) * NumPixels
       /\ \A k \in 0..(ImageCount(h_image) - 1) : \A i \in 0..(NumPixels - 1) :
             h_out.val.data[k * NumPixels + i] = h_image.data[k * NumPixels + h_idx[i]]
       /\ SubSeq(h_out.val.shape, Ndim(h_out.val) - 1, Ndim(h_out.val)) = <<ImgSide, ImgSide>>

\* a batch of two images was shuffled by a permutation that is not its own inverse
C3_Witness ==
    /\ h_stage = "shuffled"
    /\ ImageCount(h_image) >= 2
    /\ \E i \in DOMAIN h_idx : h_idx[h_idx[i]] # i

\* C4: after magic, row i of the first-layer kernel is row shuf_idx[i] of the
\* kernel the model held before the call.
C4_RowGather ==
    magicSince >= 1 =>
       /\ weights[1].shape = weights_pre[1].shape
       /\ \A i \in 0..(NumPixels - 1) : \A h \in 0..(Hidden - 1) :
             At2(weights[1], i, h) = At2(weights_pre[1], shuf_idx[i], h)

\* magic has run twice, the last time under a permutation that is not its own inverse
C4_Witness ==
    /\ magicCount >= 2
    /\ magicSince >= 1
    /\ \E i \in DOMAIN shuf_idx : shuf_idx[shuf_idx[i]] # i

\* C5: get_shuffle_indices(0) returns the identity 0, 1, ..., size-1 and draws
\* nothing from the random source.
C5_ZeroSwaps ==
    (pc = "cell" /\ caller = "shuffle_and_eval" /\ n_arg = 0) =>
       /\ loc_idx = Arange(NumPixels)
       /\ callDraws = 0
       /\ bound /\ shuf_idx = Arange(NumPixels)

\* a call with n = 0 has returned, after an earlier call that did draw
C5_Witness ==
    pc = "cell" /\ caller = "shuffle_and_eval" /\ n_arg = 0 /\ rngDraws >= 1

\* C6 as stated: shuffle_image with p and then with the inverse of p returns
\* the original image batch exactly.
C6_RoundTripExact ==
    h_stage = "back" => (h_back.ok /\ h_back.val = h_image)

\* C6, amended: the round trip returns the original pixel values element for
\* element; the array is the original one exactly unless the batch was given
\* as [1, H, W], which comes back as the single image [H, W].
C6_RoundTrip ==
    h_stage = "back" =>
       /\ h_back.ok
       /\ h_back.val.data = h_image.data
       /\ h_back.val.shape =
             IF Ndim(h_image) = 3 /\ h_image.shape[1] = 1
             THEN <<ImgSide, ImgSide>> ELSE h_image.shape

\* a batch of two images went through the round trip under a permutation
\* that is not its own inverse
C6_Witness ==
    /\ h_stage = "back"
    /\ ImageCount(h_image) >= 2
    /\ \E i \in DOMAIN h_idx : h_idx[h_idx[i]] # i
    /\ h_out.val # h_image

\* C7: after shuffle_and_eval(n) and then exactly one magic(model), on every
\* permuted train / test image the model has the first-layer pre-activations,
\* and so the prediction, that the model before magic had on the unpermuted
\* image; the accuracies are those of the model before magic on x_train, x_test.
C7_Recovered ==
    (pc = "cell" /\ bound /\ magicSince = 1) =>
       /\ \A k \in 0..(NTrain - 1) :
             /\ PreAct(weights, FlatImage(x_train_shuf, k)) = PreAct(weights_pre, FlatImage(x_train, k))
             /\ Predict(weights, FlatImage(x_train_shuf, k)) = Predict(weights_pre, FlatImage(x_train, k))
       /\ \A k \in 0..(NTest - 1) :
             /\ PreAct(weights, FlatImage(x_test_shuf, k)) = PreAct(weights_pre, FlatImage(x_test, k))
             /\ Predict(weights, FlatImage(x_test_shuf, k)) = Predict(weights_pre, FlatImage(x_test, k))
       /\ Evaluate(weights, <<x_train_shuf, y_train>>, <<x_test_shuf, y_test>>)
             = Evaluate(weights_pre, <<x_train, y_train>>, <<x_test, y_test>>)

\* shuffle_and_eval, then one magic, under a permutation that is not its own
\* inverse, and the permuted images are evaluated
C7_Witness ==
    /\ pc = "cell" /\ bound /\ magicSince = 1 /\ magicCount = 1
    /\ \E i \in DOMAIN shuf_idx : shuf_idx[shuf_idx[i]] # i
    /\ x_train_shuf # x_train
    /\ evalOut = Evaluate(weights_pre, <<x_train, y_train>>, <<x_test, y_test>>)

C9_OnlyKernel ==
    magicCount >= 1 =>
       /\ Len(weights) = 4
       /\ weights[2] = weights_pre[2]
       /\ weights[3] = weights_pre[3]
       /\ weights[4] = weights_pre[4]

\* magic has run and did change the kernel
C9_Witness == magicCount >= 1 /\ weights[1] # weights_pre[1]

\* C10 as stated: a batch given as [N, H, W] comes back as [N, H, W] for
\* every N >= 1.
C10_SameShape ==
    (h_stage \in {"shuffled", "again", "back"} /\ Ndim(h_image) = 3) =>
       (h_out.ok /\ h_out.val.shape = h_image.shape)

\* C10, amended: a batch given as [N, H, W] comes back as [N, H, W] for every
\* N >= 2; a batch of one image given as [1, H, W] comes back without its
\* batch axis, as [H, W].
C10_ShapeSqueezed ==
    (h_stage \in {"shuffled", "again", "back"} /\ Ndim(h_image) = 3) =>
       /\ h_out.ok
       /\ h_image.shape[1] >= 2 => h_out.val.shape = h_image.shape
       /\ h_image.shape[1] = 1 => h_out.val.shape = <<ImgSide, ImgSide>>

\* a batch of one image, given with its batch axis, was shuffled
C10_Witness ==
    /\ h_stage = "shuffled"
    /\ h_image.shape = <<1, ImgSide, ImgSide>>
    /\ h_out.ok

\* C11: given a single image of shape [H, W], shuffle_image treats it as a
\* batch of one and returns a single permuted image of shape [H, W].
C11_SingleImage ==
    (h_stage \in {"shuffled", "again", "back"} /\ Ndim(h_image) = 2) =>
       /\ h_out.ok
       /\ h_out.val.shape = <<ImgSide, ImgSide>>
       /\ \A i \in 0..(NumPixels - 1) : h_out.val.data[i] = h_image.data[h_idx[i]]

\* a single image was shuffled by a permutation that is not its own inverse
C11_Witness ==
    /\ h_stage = "shuffled"
    /\ Ndim(h_image) = 2
    /\ \E i \in DOMAIN h_idx : h_idx[h_idx[i]] # i

(***************************************************************************)
(* The functions on arguments of any shape: shuffle_image on an image and  *)
(* an index array that need not fit it, magic on a model that need not be  *)
(* the two-layer one, under a global shuf_idx that need not fit its kernel.*)
(* ImgSide stands for the 28 of the source, so an image "of another size"  *)
(* is one whose sides are not ImgSide.                                     *)
(***************************************************************************)
\* the side of an image that is not 28 x 28
OtherSide == ImgSide + 1

\* an array of the given shape, filled with 1, 2, 3, ... in C order
CountingArray(shape) == [shape |-> shape, data |-> [f \in 0..(Prod(shape) - 1) |-> f + 1]]

\* the image arguments tried: the well-formed ones, a single image and a batch
\* of another size, and an image twice as wide
AnyImages(seed) ==
    HarnessImages(seed) \cup
    { CountingArray(<<OtherSide, OtherSide>>),
      CountingArray(<<2, OtherSide, OtherSide>>),
      CountingArray(<<ImgSide, 2 * ImgSide>>) }

\* the lengths of index array tried
IdxLengths == 1..(2 * NumPixels + 1)

\* an index array of length L over the values 0..m-1: the cyclic shift
\* i -> i + 1 (mod m), a permutation of 0..m-1 exactly when L = m
CyclicIdx(L, m) == [i \in 0..(L - 1) |-> (i + 1) % m]

AnyIndexArrays ==
    {CyclicIdx(L, m) : L \in IdxLengths, m \in {NumPixels, OtherSide * OtherSide, 2 * NumPixels}}

\* the weights of the CNN the notebook later binds to the name model: ten arrays
CnnWeights ==
    << CountingArray(<<3, 3, 1, 2>>), CountingArray(<<2>>),
       CountingArray(<<3, 3, 2, 2>>), CountingArray(<<2>>),
       CountingArray(<<2, 2>>), CountingArray(<<2>>),
       CountingArray(<<2, 2>>), CountingArray(<<2>>),
       CountingArray(<<2, Classes>>), CountingArray(<<Classes>>) >>

\* the models tried: the trained two-layer one (four arrays), one with a third
\* Dense layer (six), one with a single Dense layer (two), and the CNN (ten)
AnyWeightLists(seed) ==
    { TrainedWeights(seed),
      TrainedWeights(seed) \o <<CountingArray(<<Classes, Classes>>), CountingArray(<<Classes>>)>>,
      SubSeq(TrainedWeights(seed), 1, 2),
      CnnWeights }

InitAnyInput ==
    \E seed \in Seeds, idx \in AnyIndexArrays, isBound \in BOOLEAN : \E ws \in AnyWeightLists(seed) :
       /\ x_train = MakeBatch(seed, NTrain)
       /\ x_test = MakeBatch(seed + 2, NTest)
       /\ y_train = MakeLabels(seed, NTrain)
       /\ y_test = MakeLabels(seed + 1, NTest)
       /\ weights = ws
       /\ weights_pre = ws
       /\ weights_orig = ws
       /\ magicPerm = Arange(NumPixels)
       /\ bound = isBound
       /\ shuf_idx = IF isBound THEN idx ELSE <<>>
       /\ x_train_shuf = EmptyArray
       /\ x_test_shuf = EmptyArray
       /\ pc = "cell"
       /\ caller = "none"
       /\ n_arg = 0
       /\ loc_idx = <<>>
       /\ loc_left = 0
       /\ rngDraws = 0
       /\ callDraws = 0
       /\ magicCount = 0
       /\ magicSince = 0
       /\ evalOut = [train |-> 0, test |-> 0]
       /\ lastErr = "none"
       /\ h_image \in AnyImages(seed)
       /\ h_idx = idx
       /\ h_stage = "idx"
       /\ h_out = Raise("none")
       /\ h_again = Raise("none")
       /\ h_back = Raise("none")
       /\ GenIdle

NextAnyInput ==
    \/ MagicCell
    \/ FnShuffle
    \/ FnShuffleAgain

SpecAnyInput == InitAnyInput /\ [][NextAnyInput]_vars

\* the exceptions numpy and Keras raise when shapes or indices do not fit: the
\* code has no error type of its own, these are its shape-mismatch failures
ShapeErrors == {"ValueError", "IndexError"}

\* the last two axes of an image or batch
ImageHW(image) == SubSeq(image.shape, Len(image.shape) - 1, Len(image.shape))

\* C12: shuffle_image called on 28 x 28 images with an index array whose length
\* is not H * W always fails with a shape-mismatch error and never returns a result.
C12_WrongLengthFails ==
    (/\ h_stage \in {"shuffled", "again"}
     /\ ImageHW(h_image) = <<ImgSide, ImgSide>>
     /\ IdxLen(h_idx) # NumPixels) =>
        /\ ~h_out.ok
        /\ h_out.err \in ShapeErrors

\* C13: magic on a model whose weights list is not exactly four arrays (the
\* CNN later bound to the name model, for one) fails with a shape-mismatch
\* error and leaves the model as it was.
C13_NotFourArraysFails ==
    [][(MagicCell /\ Len(weights) # 4) =>
          /\ lastErr' \in ShapeErrors
          /\ weights' = weights
          /\ magicCount' = magicCount]_vars

\* magic has been called on the CNN and has raised
C13_Witness ==
    /\ weights = CnnWeights
    /\ lastErr = "ValueError"
    /\ magicCount = 0

\* C14: magic fails with a shape-mismatch error whenever the number of rows of
\* the first-layer kernel differs from the length of shuf_idx, shorter or longer.
C14_WrongLengthFails ==
    [][(/\ MagicCell
        /\ Len(weights) = 4
        /\ bound
        /\ IdxLen(shuf_idx) # weights[1].shape[1]) =>
          /\ lastErr' \in ShapeErrors
          /\ weights' = weights
          /\ magicCount' = magicCount]_vars

\* magic has raised on the two-layer model under an index array that is
\* shorter than the kernel has rows and holds only legal row indices
C14_Witness ==
    /\ Len(weights) = 4
    /\ bound
    /\ IdxLen(shuf_idx) < weights[1].shape[1]
    /\ IdxInRange(shuf_idx, weights[1].shape[1])
    /\ lastErr = "ValueError"
    /\ magicCount = 0

\* C16: an operation that fails leaves its inputs as they were: a failing magic
\* leaves the model's arrays unchanged, a failing shuffle_image leaves the image
\* batch and the index array unchanged.
C16_FailureLeavesInputs ==
    [][/\ (MagicCell /\ lastErr' # "none") => weights' = weights
       /\ (FnShuffle /\ ~h_out'.ok) => (h_image' = h_image /\ h_idx' = h_idx)
       /\ (FnShuffleAgain /\ ~h_again'.ok) => (h_image' = h_image /\ h_idx' = h_idx)]_vars

\* set_weights has refused a reordered kernel and shuffle_image has raised
C16_Witness ==
    /\ Len(weights) = 4
    /\ bound
    /\ IdxInRange(shuf_idx, weights[1].shape[1])
    /\ lastErr = "ValueError"
    /\ h_stage \in {"shuffled", "again"}
    /\ ~h_out.ok
    /\ h_out.err \in ShapeErrors

\* C19: shuffle_image works for an image of any height H and width W: given a
\* single [H, W] image and a permutation of its H * W positions it returns the
\* [H, W] image whose flat pixel i is the input's flat pixel shuf_idx[i].
C19_AnyImageSize ==
    (/\ h_stage \in {"shuffled", "again"}
     /\ Ndim(h_image) = 2
     /\ IdxLen(h_idx) = ArrSize(h_image)
     /\ \A v \in 0..(ArrSize(h_image) - 1) : \E i \in DOMAIN h_idx : h_idx[i] = v) =>
        /\ h_out.ok
        /\ h_out.val.shape = h_image.shape
        /\ \A i \in DOMAIN h_idx : h_out.val.data[i] = h_image.data[h_idx[i]]

\* C17: magic does not change the weights the caller held before the call: the
\* live model's arrays after magic are those it held before, the realigned
\* kernel being delivered only as a returned list.
C17_CallerWeightsKept ==
    magicCount >= 1 => weights = weights_pre

(***************************************************************************)
(* get_shuffle_indices called directly, whole calls at a time, with the    *)
(* global random stream made explicit: np.random.seed(123) rewinds it, so  *)
(* draw number k after a seeding is the same pair every time.              *)
(***************************************************************************)
\* the argument lists tried: one argument (the swap count n, also negative),
\* or a size followed by a swap count
GenArgLists ==
    {<<n>> : n \in (-1)..MaxDraws} \cup {<<size, 1>> : size \in {-1, 0, NumPixels}}

RECURSIVE ApplyDraws(_, _, _, _)
\* the loop for _ in range(n) run to its end from the index array idx, with
\* left iterations to go, taking its draws from the stream after position pos
ApplyDraws(idx, tape, pos, left) ==
    IF ~LoopContinues(left) THEN idx
    ELSE ApplyDraws(SwapEntries(idx, tape[pos + 1][1], tape[pos + 1][2]), tape, pos + 1, left - 1)

\* the draws a call with swap count n takes: range(n) is empty for n <= 0
DrawsTaken(n) == IF n > 0 THEN n ELSE 0

\* the cell holding np.random.seed(123), run again
GenSeedCell ==
    /\ pc = "cell"
    /\ rngDraws' = 0
    /\ UNCHANGED <<pc, caller, n_arg, loc_idx, loc_left, callDraws>>
    /\ UNCHANGED <<notebookVars, h_image, h_idx, h_stage, h_out, h_again, h_back, genVars>>

\* get_shuffle_indices(*args): Python binds the arguments to the one
\* parameter n, the loop draws from the global stream, the array is returned
GenCall(args) ==
    /\ pc = "cell"
    /\ IF Len(args) # 1
       THEN /\ g_last' = [args |-> args, pos |-> rngDraws, ok |-> FALSE, val |-> <<>>,
                          err |-> "TypeError"]
            /\ UNCHANGED <<rngTape, rngDraws, callDraws>>
       ELSE LET n    == args[1]
                need == rngDraws + DrawsTaken(n) - Len(rngTape)
            IN /\ rngDraws + DrawsTaken(n) <= MaxDraws
               /\ \E fresh \in [1..(IF need > 0 THEN need ELSE 0) -> DrawPairs] :
                     /\ rngTape' = rngTape \o fresh
                     /\ g_last' = [args |-> args, pos |-> rngDraws, ok |-> TRUE,
                                   val |-> ApplyDraws(Arange(NumPixels), rngTape \o fresh,
                                                      rngDraws, n),
                                   err |-> "none"]
               /\ rngDraws' = rngDraws + DrawsTaken(n)
               /\ callDraws' = DrawsTaken(n)
    /\ UNCHANGED <<pc, caller, n_arg, loc_idx, loc_left>>
    /\ UNCHANGED <<notebookVars, h_image, h_idx, h_stage, h_out, h_again, h_back, trainVars>>

InitGen == InitNotebook(1) /\ HarnessIdle /\ GenIdle

NextGen ==
    \/ GenSeedCell
    \/ \E args \in GenArgLists : GenCall(args)

SpecGen == InitGen /\ [][NextGen]_vars

\* C15: get_shuffle_indices takes the permutation size as an argument: called
\* with a size and a swap count it returns size entries for a positive size and
\* fails, returning nothing, for a size <= 0.
C15_SizeArgument ==
    Len(g_last.args) = 2 =>
       IF g_last.args[1] > 0
       THEN g_last.ok /\ IdxLen(g_last.val) = g_last.args[1]
       ELSE ~g_last.ok

\* C18: the permutation get_shuffle_indices(n) returns depends only on n and on
\* the seed: it is the permutation the call returns right after
\* np.random.seed(123), whatever ran between the seeding and the call.
C18_SeedAndCountOnly ==
    (g_last.ok /\ Len(g_last.args) = 1) =>
       g_last.val = ApplyDraws(Arange(NumPixels), rngTape, 0, g_last.args[1])

ForceArgs == {"omitted", "true", "false"}

\* the value the parameter force takes: def train_and_save(model, path, force=True, **kwargs)
ForceValue(arg) == IF arg = "omitted" THEN TRUE ELSE arg = "true"

\* faulty variant of ShouldLoad: force is not looked at
ShouldLoadIgnoresForce(m_exists, h_exists, force) == m_exists /\ h_exists

\* if model_path.exists() and history_path.exists() and not force
ShouldLoad(m_exists, h_exists, force) == m_exists /\ h_exists /\ ~force

\* everything outside the regularization notebook
otherVars == <<notebookVars, gsiVars, h_image, h_idx, h_stage, h_out, h_again, h_back,
               rngTape, g_last>>

\* history = train_and_save(model=model, path=path[, force=...])
TrainAndSave(path, arg) ==
    LET found == files[path]
        call  == [path |-> path, force |-> arg, found |-> found, did |-> "none"]
    IN IF ShouldLoad(found.model_h5 # 0, found.history_json # 0, ForceValue(arg))
       THEN \* model.load_weights, then pd.read_json: each raises on a missing file
            /\ reg_model' = IF found.model_h5 # 0 THEN found.model_h5 ELSE reg_model
            /\ t_last' = [call EXCEPT !.did = IF found.model_h5 # 0 /\ found.history_json # 0
                                               THEN "loaded" ELSE "raised"]
            /\ UNCHANGED <<files, fits, otherVars>>
       ELSE \* model.fit, model.save_weights, history.to_json
            /\ fits < MaxFits
            /\ fits' = fits + 1
            /\ reg_model' = fits + 1
            /\ files' = [files EXCEPT ![path] = [model_h5 |-> fits + 1, history_json |-> fits + 1]]
            /\ t_last' = [call EXCEPT !.did = "trained"]
            /\ UNCHANGED otherVars

\* model = build_model(): the name model is bound to a freshly built model
BuildModelCell ==
    /\ reg_model # 0
    /\ reg_model' = 0
    /\ UNCHANGED <<files, fits, t_last, otherVars>>

\* one of the two files of a save directory goes away between calls (removed
\* by the user, or never written because the run stopped after save_weights)
RemoveFile(path, which) ==
    /\ files[path][which] # 0
    /\ files' = [files EXCEPT ![path][which] = 0]
    /\ UNCHANGED <<reg_model, fits, t_last, otherVars>>

InitTrain == InitNotebook(1) /\ HarnessIdle /\ GenIdle

NextTrain ==
    \/ \E path \in SavePaths, arg \in ForceArgs : TrainAndSave(path, arg)
    \/ BuildModelCell
    \/ \E path \in SavePaths, which \in {"model_h5", "history_json"} : RemoveFile(path, which)

SpecTrain == InitTrain /\ [][NextTrain]_vars

\* C21: train_and_save loads instead of training whenever a saved model is
\* found: a call made without a force argument on a directory that holds
\* model.h5 and history.json loads the saved weights and does not train.
C21_LoadsWhenFound ==
    (/\ t_last.force = "omitted"
     /\ t_last.found.model_h5 # 0
     /\ t_last.found.history_json # 0) =>
        t_last.did = "loaded"

\* C22: each swap iteration of get_shuffle_indices picks two distinct positions
\* i # j and exchanges the values stored at exactly those two positions; every
\* other position of the running sequence is unchanged by that iteration.
C22_SwapFrame ==
    [][SwapIteration =>
          \E i, j \in 0..(NumPixels - 1) :
             /\ i # j
             /\ loc_idx'[i] = loc_idx[j]
             /\ loc_idx'[j] = loc_idx[i]
             /\ \A k \in (0..(NumPixels - 1)) \ {i, j} : loc_idx'[k] = loc_idx[k]]_vars

\* a direct call is inside its loop, a second iteration has just run, and the
\* array is neither the identity nor a single exchange away from it
C22_Witness ==
    /\ pc = "gsi"
    /\ caller = "harness"
    /\ callDraws >= 2
    /\ Cardinality({k \in DOMAIN loc_idx : loc_idx[k] # k}) > 2

\* C23: in any sequence of the notebook's operations the model's arrays change
\* only in a magic step: get_shuffle_indices, shuffle_image, shuffle_and_eval
\* and evaluate leave all four of them unchanged.
C23_OnlyMagicWrites ==
    [][weights' # weights => MagicCell]_vars

\* magic has changed the kernel, and after it shuffle_and_eval has run to its
\* end, drawing a new permutation and evaluating the model
C23_Witness ==
    /\ magicCount >= 1
    /\ magicSince = 0
    /\ weights[1] # TrainedWeights(1)[1]
    /\ weights[1] # TrainedWeights(2)[1]
    /\ bound
    /\ pc = "cell"
    /\ callDraws >= 1

\* C24: get_shuffle_indices called with a negative swap count fails; it does
\* not return a permutation.
C24_NegativeCountFails ==
    (Len(g_last.args) = 1 /\ g_last.args[1] < 0) => ~g_last.ok

\* are the rows of a 2-d array pairwise different
RowsDistinct(a) ==
    \A r1, r2 \in 0..(a.shape[1] - 1) :
       r1 # r2 => \E c \in 0..(a.shape[2] - 1) : At2(a, r1, c) # At2(a, r2, c)

\* C25: magic composes with earlier realignments: after k magic calls under the
\* permutations p1..pk (in call order) kernel row i is row p1[p2[...pk[i]]] of
\* the trained kernel; a second magic under an unchanged shuf_idx p that is not
\* the identity leaves a kernel other than the once-realigned one.
C25_Composes ==
    /\ \A i \in 0..(NumPixels - 1) : \A h \in 0..(Hidden - 1) :
          At2(weights[1], i, h) = At2(weights_orig[1], magicPerm[i], h)
    /\ (/\ magicSince >= 2
        /\ shuf_idx # Arange(NumPixels)
        /\ RowsDistinct(weights_pre[1])) => weights[1] # weights_pre[1]

\* magic has run twice, under two permutations that do not commute
C25_Witness ==
    /\ magicCount >= 2
    /\ magicSince >= 1
    /\ magicPerm # shuf_idx
    /\ \E i \in DOMAIN magicPerm : magicPerm[magicPerm[i]] # i
    /\ \E i \in DOMAIN magicPerm : magicPerm[shuf_idx[i]] # shuf_idx[magicPerm[i]]

\* the number of pairs of positions an index array holds out of order
Inversions(idx) ==
    Cardinality({d \in (DOMAIN idx) \X (DOMAIN idx) : d[1] < d[2] /\ idx[d[1]] > idx[d[2]]})

\* the positions an index array moves away from the identity
Moved(idx) == {k \in DOMAIN idx : idx[k] # k}

\* C26: the permutation get_shuffle_indices(n) returns has the parity of n and
\* moves at most 2n positions; for n = 1 it is never the identity (so for a
\* fixed n not every permutation can be returned).
C26_ParityAndSupport ==
    /\ pc = "gsi" =>
          /\ Inversions(loc_idx) % 2 = callDraws % 2
          /\ Cardinality(Moved(loc_idx)) <= 2 * callDraws
    /\ h_stage \in {"idx", "shuffled", "again", "back"} =>
          /\ Inversions(h_idx) % 2 = n_arg % 2
          /\ Cardinality(Moved(h_idx)) <= 2 * n_arg
          /\ n_arg = 1 => h_idx # Arange(NumPixels)

\* a call with n = 2 has returned a permutation that moves three positions
C26_Witness ==
    /\ h_stage = "idx"
    /\ n_arg = 2
    /\ Cardinality(Moved(h_idx)) = 3

\* how often the value v occurs among the pixels of a flattened image
Occurrences(x, v) == Cardinality({i \in DOMAIN x : x[i] = v})

\* do two flattened images hold the same multiset of pixel values
SamePixels(x, y) ==
    \A v \in {x[i] : i \in DOMAIN x} \cup {y[i] : i \in DOMAIN y} :
       Occurrences(x, v) = Occurrences(y, v)

\* C27: under a permutation from get_shuffle_indices, shuffle_image keeps the
\* batch order and only rearranges pixels within each image: the number of
\* images is unchanged, still one per label, and output image k holds exactly
\* the multiset of pixel values of input image k.
C27_PerImagePixels ==
    bound =>
       /\ x_train_shuf.shape = x_train.shape
       /\ x_test_shuf.shape = x_test.shape
       /\ x_train_shuf.shape[1] = IdxLen(y_train)
       /\ x_test_shuf.shape[1] = IdxLen(y_test)
       /\ \A k \in 0..(NTrain - 1) : SamePixels(FlatImage(x_train_shuf, k), FlatImage(x_train, k))
       /\ \A k \in 0..(NTest - 1) : SamePixels(FlatImage(x_test_shuf, k), FlatImage(x_test, k))

\* the images were shuffled under a permutation that is not the identity, and
\* the second training image differs from the first
C27_Witness ==
    /\ bound
    /\ shuf_idx # Arange(NumPixels)
    /\ x_train_shuf # x_train
    /\ ~SamePixels(FlatImage(x_train, 0), FlatImage(x_train, 1))

\* C28: shuffle_and_eval(n) generates one permutation with n swaps, applies
\* that same permutation to x_train and to x_test and returns it with the two
\* permuted sets, so the global shuf_idx is the one under which x_train_shuf
\* and x_test_shuf were produced; x_train and x_test are never modified.
C28_OnePermutation ==
    /\ [][x_train' = x_train /\ x_test' = x_test]_vars
    /\ [](bound =>
            /\ ShuffleImage(x_train, shuf_idx).ok
            /\ x_train_shuf = ShuffleImage(x_train, shuf_idx).val
            /\ ShuffleImage(x_test, shuf_idx).ok
            /\ x_test_shuf = ShuffleImage(x_test, shuf_idx).val)
    /\ []((pc = "cell" /\ caller = "shuffle_and_eval") =>
            /\ bound
            /\ shuf_idx = loc_idx
            /\ callDraws = n_arg)

\* a second shuffle_and_eval has returned, both calls having drawn, and the
\* test images it returned are not the unpermuted ones
C28_Witness ==
    /\ pc = "cell"
    /\ caller = "shuffle_and_eval"
    /\ callDraws >= 1
    /\ rngDraws > callDraws
    /\ shuf_idx # Arange(NumPixels)
    /\ x_test_shuf # x_test

\* C29: after every train_and_save call that returns, model.h5 and
\* history.json both exist under path; the saved weights are loaded, with no
\* training and no write, only when both files exist and force is false; when
\* only one of the two exists, or none, or force is true, the model is
\* retrained and both files are rewritten.
C29_BothFilesAfter ==
    [][\A path \in SavePaths, arg \in ForceArgs :
          (TrainAndSave(path, arg) /\ t_last'.did # "raised") =>
             LET both == files[path].model_h5 # 0 /\ files[path].history_json # 0
             IN /\ files'[path].model_h5 # 0
                /\ files'[path].history_json # 0
                /\ (both /\ ~ForceValue(arg)) =>
                      /\ fits' = fits
                      /\ files' = files
                      /\ reg_model' = files[path].model_h5
                /\ ~(both /\ ~ForceValue(arg)) =>
                      /\ fits' = fits + 1
                      /\ reg_model' = fits'
                      /\ files'[path] = [model_h5 |-> fits', history_json |-> fits']
                      /\ \A other \in SavePaths \ {path} : files'[other] = files[other]]_vars

\* a call with force=False found only one of the two files, retrained, and
\* both files are there again; the other directory holds an older model
C29_Witness ==
    /\ t_last.force = "false"
    /\ t_last.did = "trained"
    /\ (t_last.found.model_h5 = 0) # (t_last.found.history_json = 0)
    /\ files[t_last.path] = [model_h5 |-> fits, history_json |-> fits]
    /\ \E other \in SavePaths \ {t_last.path} : files[other].model_h5 \in 1..(fits - 1)

====
